---- MODULE Spec2Model ----
(***************************************************************************)
(* mysql2csv: export of one SQL query to a delimited text file.            *)
(* Model of src/src/main.rs, function run (lines 138-335).                 *)
(*                                                                         *)
(* Text is modelled at character level: a string is a sequence of          *)
(* one-character strings, so that the regex rewrite of the query, the      *)
(* delimiter strip and the csv writer's quoting are computed, not assumed. *)
(* Type tags (type_info().to_string()) are only ever compared whole and    *)
(* are kept as TLA+ strings.                                               *)
(***************************************************************************)
EXTENDS Integers, Sequences, FiniteSets, TLC

VARIABLES
    cli,            \* the parsed command line (struct Cli)
    db,             \* environment: what the database holds for cli.sql
    now,            \* environment: the wall clock read by Local::now()
    pc,             \* position of run()
    outcome,        \* "running", or how run() ended: "ok", "err", "panic"
    fs,             \* the files and directories under cli.output
    vec_col_name,   \* column names discovered by the header probe
    vec_col_type,   \* column type tags discovered by the header probe
    total_rows,     \* the progress bar's length
    pos,            \* the progress bar's position
    cursor,         \* rows delivered so far by stream.try_next()
    wtr,            \* records handed to wtr.serialize, in order
    error,          \* the probe error bound in the Err arm, <<>> when none
    queries,        \* history: the queries sent to the database by this run
    runs            \* number of process runs started against the output root

vars == <<cli, db, now, pc, outcome, fs, vec_col_name, vec_col_type,
          total_rows, pos, cursor, wtr, error, queries, runs>>

(***************************************************************************)
(* Bounds of the model.                                                    *)
(***************************************************************************)
MaxRows == 2      \* rows the query returns
MaxTotal == 1     \* largest value the count/max query returns
MaxRuns == 2      \* process runs against one output root (SpecRuns)
MaxPieces == 5    \* pieces a probed SQL text is built from (SpecProbe)

(***************************************************************************)
(* String literals of the program.                                         *)
(***************************************************************************)
S_users == <<"u","s","e","r","s">>
S_id == <<"i","d">>
S_name == <<"n","a","m","e">>
S_note == <<"n","o","t","e">>
S_zz == <<"z","z">>
S_output == <<".","/","o","u","t","p","u","t">>
S_arrow == <<" ","=",">"," ">>
S_checking == <<"C","h","e","c","k","i","n","g"," ">>
S_wait == <<","," ","p","l","e","a","s","e"," ","w","a","i","t",".",".",".">>
S_errwith == <<"E","r","r","o","r"," ","w","i","t","h"," ">>
S_colon == <<":"," ">>
S_done == <<"D","o","n","e">>
S_limit == <<"l","i","m","i","t">>
S_limit10 == <<" ","L","I","M","I","T"," ","1","0">>
S_count == <<"s","e","l","e","c","t"," ","c","o","u","n","t","(","*",")"," ","f","r","o","m"," ">>
S_max1 == <<"s","e","l","e","c","t"," ","m","a","x","(">>
S_max2 == <<")"," ","f","r","o","m"," ">>
S_csv == <<".","c","s","v">>
S_slash == <<"/">>
S_nl == <<"\n">>
SqlScenarioA == <<"S","E","L","E","C","T"," ","i","d",","," ","n","a","m","e"," ","F","R","O","M"," ","u","s","e","r","s"," ","L","I","M","I","T"," ","1","0","0","0","0","0">>
SqlNotes == <<"S","E","L","E","C","T"," ","n","a","m","e",","," ","n","o","t","e"," ","F","R","O","M"," ","u","s","e","r","s">>
SqlUnnamed == <<"S","E","L","E","C","T"," ","'","'"," ","F","R","O","M"," ","u","s","e","r","s">>
SqlOffset == <<"S","E","L","E","C","T"," ","i","d",","," ","n","a","m","e"," ","F","R","O","M"," ","u","s","e","r","s"," ","L","I","M","I","T"," ","1",","," ","1","0">>
SqlUnnamedText == <<"S","E","L","E","C","T"," ","n","o","t","e"," ","A","S"," ","'","'"," ","F","R","O","M"," ","u","s","e","r","s">>
E_notable == <<"T","a","b","l","e"," ","'","n","o","s","u","c","h","'"," ","d","o","e","s","n","'","t"," ","e","x","i","s","t">>
E_rownotfound == <<"n","o"," ","r","o","w","s"," ","r","e","t","u","r","n","e","d">>

(***************************************************************************)
(* Characters.                                                             *)
(***************************************************************************)
UpperCase == <<"A","B","C","D","E","F","G","H","I","J","K","L","M",
               "N","O","P","Q","R","S","T","U","V","W","X","Y","Z">>
LowerCase == <<"a","b","c","d","e","f","g","h","i","j","k","l","m",
               "n","o","p","q","r","s","t","u","v","w","x","y","z">>
Digits == <<"0","1","2","3","4","5","6","7","8","9">>

Range(s) == {s[k] : k \in DOMAIN s}

IsDigit(c) == c \in Range(Digits)
IsSpace(c) == c \in {" ", "\t", "\n", "\r", "\f"}
IsWord(c) == c \in Range(UpperCase) \cup Range(LowerCase) \cup Range(Digits) \cup {"_"}
ToLower(c) ==
    IF c \in Range(UpperCase)
    THEN LowerCase[CHOOSE k \in DOMAIN UpperCase : UpperCase[k] = c]
    ELSE c

RECURSIVE Concat(_)
\* format!/concatenation of a sequence of strings
Concat(ss) == IF ss = <<>> THEN <<>> ELSE Head(ss) \o Concat(Tail(ss))

RECURSIVE DigitsOf(_)
DigitsOf(n) == IF n < 10 THEN <<Digits[n + 1]>>
               ELSE DigitsOf(n \div 10) \o <<Digits[(n % 10) + 1]>>

\* integer to_string(): base 10, a leading minus sign for negatives
IntToString(n) == IF n < 0 THEN <<"-">> \o DigitsOf(0 - n) ELSE DigitsOf(n)

(***************************************************************************)
(* Header probe rewrite, main.rs 172-174:                                  *)
(*   Regex::new(r"(?i)\blimit\s+\d+(\s*,\s*\d+)?\b.*")                     *)
(*   re.replace_all(&cli.sql, "")  followed by  " LIMIT 10"                *)
(* Positions are 1-based; a boundary p lies between s[p] and s[p+1].       *)
(***************************************************************************)
WordAt(s, k) == k >= 1 /\ k <= Len(s) /\ IsWord(s[k])

\* \b
WordBoundary(s, p) == WordAt(s, p) # WordAt(s, p + 1)

RECURSIVE SkipSpace(_, _)
\* \s* (greedy) from position p: the first position that is not whitespace
SkipSpace(s, p) == IF p <= Len(s) /\ IsSpace(s[p]) THEN SkipSpace(s, p + 1) ELSE p

RECURSIVE SkipDigit(_, _)
\* \d* (greedy) from position p: the first position that is not a digit
SkipDigit(s, p) == IF p <= Len(s) /\ IsDigit(s[p]) THEN SkipDigit(s, p + 1) ELSE p

RECURSIVE LineEnd(_, _)
\* .* (greedy) from position p: '.' matches every character but "\n"
LineEnd(s, p) == IF p <= Len(s) /\ s[p] # "\n" THEN LineEnd(s, p + 1) ELSE p

\* A variant of KeywordAt without (?i)
KeywordAtCaseSensitive(s, i) ==
    /\ i + 4 <= Len(s)
    /\ \A k \in 1..5 : s[i + k - 1] = S_limit[k]

\* (?i)limit at position i
KeywordAt(s, i) ==
    /\ i + 4 <= Len(s)
    /\ \A k \in 1..5 : ToLower(s[i + k - 1]) = S_limit[k]

\* (\s*,\s*\d+)? tried at position c: the position after the group, 0 when
\* the group does not match there
GroupEnd(s, c) ==
    LET d == SkipSpace(s, c)
        e == SkipSpace(s, d + 1)
        f == SkipDigit(s, e)
    IN  IF d <= Len(s) /\ s[d] = "," /\ f > e THEN f ELSE 0

\* The end (first position after the match) of the match of the whole regex
\* that starts at position i, 0 when there is none.  Greedy, leftmost-first:
\* the optional group is taken when the rest then matches, else skipped.
MatchEnd(s, i) ==
    IF ~(WordBoundary(s, i - 1) /\ KeywordAt(s, i)) THEN 0
    ELSE LET a == i + 5
             b == SkipSpace(s, a)
             c == SkipDigit(s, b)
             g == GroupEnd(s, c)
         IN  IF b = a \/ c = b THEN 0
             ELSE IF g # 0 /\ WordBoundary(s, g - 1) THEN LineEnd(s, g)
             ELSE IF WordBoundary(s, c - 1) THEN LineEnd(s, c)
             ELSE 0

RECURSIVE ReplaceFrom(_, _)
\* replace_all(s, ""): the non-overlapping matches, leftmost first, removed
ReplaceFrom(s, i) ==
    IF i > Len(s) THEN <<>>
    ELSE IF MatchEnd(s, i) # 0 THEN ReplaceFrom(s, MatchEnd(s, i))
    ELSE <<s[i]>> \o ReplaceFrom(s, i + 1)

header_q(sql) == ReplaceFrom(sql, 1)

sql_query_header(sql) == header_q(sql) \o S_limit10

(***************************************************************************)
(* csv::Writer with WriterBuilder::new().delimiter(delim): QuoteStyle      *)
(* Necessary, quote '"' doubled, terminator "\n".  wtr.serialize of a      *)
(* Vec of strings writes one record.                                       *)
(***************************************************************************)
\* main.rs 231: the first byte of cli.delim, '|' when it is empty
delim(c) == IF c.delim = <<>> THEN "|" ELSE Head(c.delim)

NeedsQuotes(f, d) == \E k \in DOMAIN f : f[k] \in {d, "\"", "\r", "\n"}

RECURSIVE DoubleQuotes(_)
DoubleQuotes(f) ==
    IF f = <<>> THEN <<>>
    ELSE (IF Head(f) = "\"" THEN <<"\"", "\"">> ELSE <<Head(f)>>) \o DoubleQuotes(Tail(f))

\* a writer that quotes every field (QuoteStyle::Always), which main.rs does not select
WriteFieldAlways(f, d) == <<"\"">> \o DoubleQuotes(f) \o <<"\"">>

WriteField(f, d) ==
    IF NeedsQuotes(f, d) THEN <<"\"">> \o DoubleQuotes(f) \o <<"\"">> ELSE f

RECURSIVE JoinFields(_, _)
JoinFields(rec, d) ==
    IF rec = <<>> THEN <<>>
    ELSE IF Len(rec) = 1 THEN WriteField(rec[1], d)
    ELSE WriteField(rec[1], d) \o <<d>> \o JoinFields(Tail(rec), d)

\* The bytes of one record.  A record of one empty field is written as ""
\* so that it is not an empty line.
WriteRecord(rec, d) ==
    IF rec = << <<>> >> THEN <<"\"", "\"", "\n">>
    ELSE JoinFields(rec, d) \o S_nl

(***************************************************************************)
(* Type codec and sanitizer: the match of main.rs 241-298.                 *)
(* A raw column value is [k |-> kind, v |-> payload]; kind "null" is SQL   *)
(* NULL.  row.get::<T>(num) panics when the value is NULL or not of a kind *)
(* T decodes; a decoded value is [ok |-> TRUE, v |-> text].                *)
(***************************************************************************)
Null == [k |-> "null", v |-> <<>>]
Panic == [ok |-> FALSE, v |-> <<>>]
Ok(v) == [ok |-> TRUE, v |-> v]

IntTags == {"SMALLINT", "TINYINT", "INT", "MEDIUMINT", "INTEGER", "BIGINT",
            "INT UNSIGNED", "BOOLEAN", "BOOL"}
BlobTags == {"TINYBLOB", "BLOB", "MEDIUMBLOB", "LONGBLOB"}
CharTags == {"CHAR", "VARCHAR"}
DisplayTags == {"DECIMAL", "DOUBLE", "FLOAT", "DATETIME", "DATE"}
ExplicitTags == IntTags \cup BlobTags \cup CharTags \cup DisplayTags

\* String::from_utf8_lossy: an invalid byte becomes U+FFFD
Utf8Lossy(bytes) == [k \in DOMAIN bytes |-> IF bytes[k] = "xFF" THEN "uFFFD" ELSE bytes[k]]

\* value.replace("|", "")
replace(v, c) == SelectSeq(v, LAMBDA x : x # c)

\* row.get::<String>(num) / row.get::<&str>(num)
GetString(raw) == IF raw.k = "text" THEN Ok(raw.v) ELSE Panic

\* The arms that name a type tag (242-289) and the last, default arm (294-297)
TypeCodec(type, raw) ==
    IF type \in DisplayTags THEN
        (IF raw.k = "display" THEN Ok(raw.v) ELSE Panic)
    ELSE IF type \in IntTags THEN
        (IF raw.k = "int" THEN Ok(IntToString(raw.v)) ELSE Panic)
    ELSE IF type \in BlobTags THEN
        (IF raw.k = "bytes" THEN Ok(Utf8Lossy(raw.v)) ELSE Panic)
    ELSE GetString(raw)

\* A variant of RepcolArm that strips every column once a target is given
RepcolArmAnyColumn(type, name, repcol) == type \notin ExplicitTags /\ repcol # <<>>

\* The guard of the arm at 290: `_ if vec_col_name[num] == cli.repcol`
RepcolArm(type, name, repcol) == type \notin ExplicitTags /\ name = repcol

\* let value = match &vec_col_type[num][..] { ... }
value(type, name, raw, repcol) ==
    IF RepcolArm(type, name, repcol)
    THEN (IF GetString(raw).ok THEN Ok(replace(GetString(raw).v, "|")) ELSE Panic)
    ELSE TypeCodec(type, raw)

\* The for loop 240-300 over one row: the decoded fields, in column order
vec_wtr_str(names, types, row, repcol) ==
    [num \in 1..Len(names) |-> value(types[num], names[num], row[num], repcol)]

RowDecodes(names, types, row, repcol) ==
    \A num \in 1..Len(names) : vec_wtr_str(names, types, row, repcol)[num].ok

\* A variant of EncodedRow whose loop stops one column early
EncodedRowOffByOne(names, types, row, repcol) ==
    [num \in 1..(Len(names) - 1) |-> vec_wtr_str(names, types, row, repcol)[num].v]

EncodedRow(names, types, row, repcol) ==
    [num \in 1..Len(names) |-> vec_wtr_str(names, types, row, repcol)[num].v]

(***************************************************************************)
(* The environment: the command lines tried and what the database returns. *)
(***************************************************************************)
Col(n, t) == [name |-> n, type |-> t]
TextVal(v) == [k |-> "text", v |-> v]
IntVal(n) == [k |-> "int", v |-> n]

V_A == <<"A">>
V_pipe == <<"A", "|", "B">>
V_semi == <<"A", ";", "B">>
V_quote == <<"A", "\"">>

\* A result set: a query text, the columns the database reports for it and a
\* pool of rows it may return
UsersVarchar ==
    [sql |-> SqlScenarioA, offset |-> 0,
     cols |-> <<Col(S_id, "INT"), Col(S_name, "VARCHAR")>>,
     pool |-> {<<IntVal(7), TextVal(V_pipe)>>, <<IntVal(12), TextVal(V_A)>>}]
UsersText ==
    [sql |-> SqlScenarioA, offset |-> 0,
     cols |-> <<Col(S_id, "BIGINT"), Col(S_name, "TEXT")>>,
     pool |-> {<<IntVal(0 - 3), TextVal(V_pipe)>>, <<IntVal(8), TextVal(V_semi)>>, <<IntVal(9), Null>>}]
NotesText ==
    [sql |-> SqlNotes, offset |-> 0,
     cols |-> <<Col(S_name, "TEXT"), Col(S_note, "TEXT")>>,
     pool |-> {<<TextVal(V_pipe), TextVal(V_pipe)>>, <<TextVal(V_semi), TextVal(V_semi)>>,
               <<TextVal(V_quote), TextVal(<<>>)>>}]
\* SELECT '' FROM users: one column whose name is the empty string
Unnamed ==
    [sql |-> SqlUnnamed, offset |-> 0,
     cols |-> << Col(<<>>, "VARCHAR") >>,
     pool |-> {<< TextVal(<<>>) >>, << TextVal(V_A) >>}]

\* SELECT note AS '' FROM users: the same, of a type the match does not name
UnnamedText ==
    [sql |-> SqlUnnamedText, offset |-> 0,
     cols |-> << Col(<<>>, "TEXT") >>,
     pool |-> {<< TextVal(V_pipe) >>, << TextVal(V_A) >>}]

\* SELECT id, name FROM users LIMIT 1, 10: the window starts after one row
UsersOffset ==
    [sql |-> SqlOffset, offset |-> 1,
     cols |-> <<Col(S_id, "INT"), Col(S_name, "VARCHAR")>>,
     pool |-> {<<IntVal(12), TextVal(V_A)>>}]

ResultSets == {UsersVarchar, UsersText, NotesText, Unnamed, UnnamedText, UsersOffset}

SeqsUpTo(S, n) == UNION {[1..k -> S] : k \in 0..n}

\* rows is what the query returns; skipped counts the rows that only the
\* query without its LIMIT clause returns, those before the window: all of
\* the offset when the window holds a row, at most the offset when it is empty.
Databases ==
    UNION {{[sql |-> r.sql, cols |-> r.cols, rows |-> x[1], skipped |-> x[2]] :
               x \in {y \in SeqsUpTo(r.pool, MaxRows) \X (0..r.offset) :
                          y[1] # <<>> => y[2] = r.offset}}
           : r \in ResultSets}

\* Driver errors a query can end in
DriverErrors == {E_notable}

\* index is Option<String>: <<>> is None, <<s>> is Some(s).  clap fills the
\* default "" (main.rs 89), so a parsed command line always holds Some.
Clis ==
    [table : {S_users},
     index : {<< <<>> >>, <<S_id>>, <<S_zz>>},
     delim : {<<"|">>, <<";">>},
     sql : {r.sql : r \in ResultSets},
     repcol : {<<>>, S_name},
     output : {S_output}]

(***************************************************************************)
(* Files.  A file is [exists, data]; data is the sequence of the byte      *)
(* strings appended to it, one per write.                                  *)
(***************************************************************************)
NoFile == [exists |-> FALSE, data |-> <<>>]

\* File::create: creates the file, truncating it when it exists
FileCreate(f) == [exists |-> TRUE, data |-> <<>>]

\* write_all on a handle opened with OpenOptions::new().append(true)
AppendTo(f, bytes) == [exists |-> TRUE, data |-> Append(f.data, bytes)]

\* The bytes of a file
Bytes(f) == Concat(f.data)

\* Local::now().format("%Y-%m-%d %H:%M:%S"): the clock reading as text
timestamp(t) == IntToString(t)

\* format!("{} => {}\n", &timestamp, &msg)
LogLine(t, msg) == Concat(<<timestamp(t), S_arrow, msg, S_nl>>)

\* main.rs 161
check_msg(c) == Concat(<<S_checking, c.table, S_wait>>)

\* A variant of err_msg without the "Error with " prefix
err_msgNoPrefix(c, e) == Concat(<<c.table, S_colon, e>>)

\* main.rs 313
err_msg(c, e) == Concat(<<S_errwith, c.table, S_colon, e>>)

\* main.rs 223
folder_path(c) == Concat(<<c.output, S_slash, c.table>>)

\* main.rs 230, 306
output_path(c) == Concat(<<folder_path(c), S_slash, c.table, S_csv>>)

\* main.rs 191, 201
count_query(c) == S_count \o c.table

\* main.rs 197
max_id_query(c, index) == Concat(<<S_max1, index, S_max2, c.table>>)

NoProcessState ==
    /\ vec_col_name = <<>>
    /\ vec_col_type = <<>>
    /\ total_rows = 0
    /\ pos = 0
    /\ cursor = 0
    /\ wtr = <<>>
    /\ error = <<>>
    /\ queries = <<>>

Init ==
    /\ cli \in Clis
    /\ db \in Databases
    /\ cli.sql = db.sql
    /\ now = 1
    /\ pc = "Connecting"
    /\ outcome = "running"
    /\ fs = [root |-> FALSE, logs |-> NoFile, failed |-> NoFile,
             folder |-> FALSE, csv |-> NoFile]
    /\ NoProcessState
    /\ runs = 1

(***************************************************************************)
(* run(), main.rs 138-335, one action per step.                            *)
(***************************************************************************)
\* A variant of Connect that opens the run log before the connection is tried
ConnectAfterLogs ==
    /\ pc = "Connecting"
    /\ \/ /\ pc' = "OpeningLogs"
          /\ outcome' = outcome
          /\ fs' = fs
       \/ /\ pc' = "Exited"
          /\ outcome' = "err"
          /\ fs' = [fs EXCEPT !.root = TRUE,
                              !.logs = AppendTo(FileCreate(fs.logs), LogLine(now, check_msg(cli)))]
    /\ UNCHANGED <<cli, db, now, vec_col_name, vec_col_type, total_rows,
                   pos, cursor, wtr, error, queries, runs>>

\* 146-152: MySqlPool::connect
Connect ==
    /\ pc = "Connecting"
    /\ \/ /\ pc' = "OpeningLogs"
          /\ outcome' = outcome
       \/ /\ pc' = "Exited"
          /\ outcome' = "err"
    /\ UNCHANGED <<cli, db, now, fs, vec_col_name, vec_col_type, total_rows,
                   pos, cursor, wtr, error, queries, runs>>

\* 153-168: the output root, logs.log created and opened, the start entry
OpenLogs ==
    /\ pc = "OpeningLogs"
    /\ fs' = [fs EXCEPT !.root = TRUE,
                        !.logs = AppendTo(FileCreate(fs.logs), LogLine(now, check_msg(cli)))]
    /\ pc' = "ProbingHeaders"
    /\ UNCHANGED <<cli, db, now, outcome, vec_col_name, vec_col_type, total_rows,
                   pos, cursor, wtr, error, queries, runs>>

\* 173-176: the rows the probe's query can return.  The probe drops the LIMIT
\* clause of the query, and with it the offset, so it also sees the rows
\* before the window.
ProbeRows(d) == d.skipped + Len(d.rows)

\* A variant of ProbeHeaders that reads the columns whether or not the probe
\* returned a row (fetch_optional in place of fetch_one)
ProbeHeadersAnyRows ==
    /\ pc = "ProbingHeaders"
    /\ queries' = Append(queries, [q |-> "probe", text |-> sql_query_header(cli.sql)])
    /\ \/ /\ vec_col_name' = [num \in DOMAIN db.cols |-> db.cols[num].name]
          /\ vec_col_type' = [num \in DOMAIN db.cols |-> db.cols[num].type]
          /\ pc' = "EstimatingCount"
          /\ error' = error
       \/ /\ \E e \in DriverErrors : error' = <<e>>
          /\ pc' = "Failed"
          /\ UNCHANGED <<vec_col_name, vec_col_type>>
    /\ UNCHANGED <<cli, db, now, outcome, fs, total_rows, pos, cursor, wtr, runs>>

\* A variant of ProbeHeaders that goes on to the estimate after a failed probe
ProbeHeadersGoesOn ==
    /\ pc = "ProbingHeaders"
    /\ queries' = Append(queries, [q |-> "probe", text |-> sql_query_header(cli.sql)])
    /\ \/ /\ ProbeRows(db) > 0
          /\ vec_col_name' = [num \in DOMAIN db.cols |-> db.cols[num].name]
          /\ vec_col_type' = [num \in DOMAIN db.cols |-> db.cols[num].type]
          /\ pc' = "EstimatingCount"
          /\ error' = error
       \/ /\ \/ ProbeRows(db) = 0 /\ error' = <<E_rownotfound>>
             \/ \E e \in DriverErrors : error' = <<e>>
          /\ pc' = "EstimatingCount"
          /\ UNCHANGED <<vec_col_name, vec_col_type>>
    /\ UNCHANGED <<cli, db, now, outcome, fs, total_rows, pos, cursor, wtr, runs>>

\* 172-187: the header probe, fetch_one of the rewritten query.  On success
\* the main query is prepared (187), which sends nothing until first polled.
ProbeHeaders ==
    /\ pc = "ProbingHeaders"
    /\ queries' = Append(queries, [q |-> "probe", text |-> sql_query_header(cli.sql)])
    /\ \/ /\ ProbeRows(db) > 0
          /\ vec_col_name' = [num \in DOMAIN db.cols |-> db.cols[num].name]
          /\ vec_col_type' = [num \in DOMAIN db.cols |-> db.cols[num].type]
          /\ pc' = "EstimatingCount"
          /\ error' = error
       \/ /\ \/ ProbeRows(db) = 0 /\ error' = <<E_rownotfound>>
             \/ \E e \in DriverErrors : error' = <<e>>
          /\ pc' = "Failed"
          /\ UNCHANGED <<vec_col_name, vec_col_type>>
    /\ UNCHANGED <<cli, db, now, outcome, fs, total_rows, pos, cursor, wtr, runs>>

\* 189-206: which query estimates the total
UsesMax(c, names) == c.index # <<>> /\ \E k \in DOMAIN names : names[k] = c.index[1]

EstimateQuery(c, names) ==
    IF UsesMax(c, names)
    THEN [q |-> "max", text |-> max_id_query(c, c.index[1])]
    ELSE [q |-> "count", text |-> count_query(c)]

\* 189-206: fetch_one of the count or max query; `?` returns its error.  The
\* database answers with a value in 0..MaxTotal, which `as usize` keeps.
EstimateCount ==
    /\ pc = "EstimatingCount"
    /\ queries' = Append(queries, EstimateQuery(cli, vec_col_name))
    /\ \/ /\ \E n \in 0..MaxTotal : total_rows' = n
          /\ pc' = "PreparingOutput"
          /\ outcome' = outcome
       \/ /\ pc' = "Exited"
          /\ outcome' = "err"
          /\ total_rows' = total_rows
    /\ UNCHANGED <<cli, db, now, fs, vec_col_name, vec_col_type, pos, cursor,
                   wtr, error, runs>>

\* 208-237: progress bar, the table's log entry, the table's folder, the
\* csv file created (truncated), the header record
PrepareOutput ==
    /\ pc = "PreparingOutput"
    /\ pos' = 0
    /\ wtr' = <<vec_col_name>>
    /\ fs' = [fs EXCEPT !.logs = AppendTo(fs.logs, LogLine(now, cli.table)),
                        !.folder = TRUE,
                        !.csv = AppendTo(FileCreate(fs.csv),
                                         WriteRecord(vec_col_name, delim(cli)))]
    /\ pc' = "Streaming"
    /\ UNCHANGED <<cli, db, now, outcome, vec_col_name, vec_col_type, total_rows,
                   cursor, error, queries, runs>>

\* The first poll of the stream sends the main query
Polled == IF cursor = 0 THEN Append(queries, [q |-> "stream", text |-> cli.sql])
          ELSE queries

\* A variant of StreamRow that drops every row after the first one
StreamRowDropsRow ==
    /\ pc = "Streaming"
    /\ cursor < Len(db.rows)
    /\ queries' = Polled
    /\ cursor' = cursor + 1
    /\ LET row == db.rows[cursor + 1] IN
         IF RowDecodes(vec_col_name, vec_col_type, row, cli.repcol)
         THEN LET rec == EncodedRow(vec_col_name, vec_col_type, row, cli.repcol) IN
              /\ IF cursor = 0
                 THEN /\ wtr' = Append(wtr, rec)
                      /\ fs' = [fs EXCEPT !.csv = AppendTo(fs.csv, WriteRecord(rec, delim(cli)))]
                      /\ pos' = pos + 1
                 ELSE UNCHANGED <<wtr, fs, pos>>
              /\ UNCHANGED <<pc, outcome>>
         ELSE /\ pc' = "Exited"
              /\ outcome' = "panic"
              /\ UNCHANGED <<wtr, fs, pos>>
    /\ UNCHANGED <<cli, db, now, vec_col_name, vec_col_type, total_rows, error, runs>>

\* A variant of StreamRow whose progress counter refuses to pass the estimate
StreamRowStopsAtTotal ==
    /\ pc = "Streaming"
    /\ cursor < Len(db.rows)
    /\ queries' = Polled
    /\ cursor' = cursor + 1
    /\ LET row == db.rows[cursor + 1] IN
         IF RowDecodes(vec_col_name, vec_col_type, row, cli.repcol) /\ pos < total_rows
         THEN LET rec == EncodedRow(vec_col_name, vec_col_type, row, cli.repcol) IN
              /\ wtr' = Append(wtr, rec)
              /\ fs' = [fs EXCEPT !.csv = AppendTo(fs.csv, WriteRecord(rec, delim(cli)))]
              /\ pos' = pos + 1
              /\ UNCHANGED <<pc, outcome>>
         ELSE /\ pc' = "Exited"
              /\ outcome' = "panic"
              /\ UNCHANGED <<wtr, fs, pos>>
    /\ UNCHANGED <<cli, db, now, vec_col_name, vec_col_type, total_rows, error, runs>>

\* 238-303, one iteration: the next row is decoded, written, counted
StreamRow ==
    /\ pc = "Streaming"
    /\ cursor < Len(db.rows)
    /\ queries' = Polled
    /\ cursor' = cursor + 1
    /\ LET row == db.rows[cursor + 1] IN
         IF RowDecodes(vec_col_name, vec_col_type, row, cli.repcol)
         THEN LET rec == EncodedRow(vec_col_name, vec_col_type, row, cli.repcol) IN
              /\ wtr' = Append(wtr, rec)
              /\ fs' = [fs EXCEPT !.csv = AppendTo(fs.csv, WriteRecord(rec, delim(cli)))]
              /\ pos' = pos + 1
              /\ UNCHANGED <<pc, outcome>>
         ELSE /\ pc' = "Exited"
              /\ outcome' = "panic"
              /\ UNCHANGED <<wtr, fs, pos>>
    /\ UNCHANGED <<cli, db, now, vec_col_name, vec_col_type, total_rows, error, runs>>

\* 238: try_next() returns an error, which `?` returns from run
StreamError ==
    /\ pc = "Streaming"
    /\ queries' = Polled
    /\ pc' = "Exited"
    /\ outcome' = "err"
    /\ UNCHANGED <<cli, db, now, fs, vec_col_name, vec_col_type, total_rows,
                   pos, cursor, wtr, error, runs>>

\* 238: try_next() returns None
StreamEnd ==
    /\ pc = "Streaming"
    /\ cursor = Len(db.rows)
    /\ queries' = Polled
    /\ pc' = "Finalizing"
    /\ UNCHANGED <<cli, db, now, outcome, fs, vec_col_name, vec_col_type,
                   total_rows, pos, cursor, wtr, error, runs>>

\* 304-310: flush, the output path logged, the bar finished
Finalize ==
    /\ pc = "Finalizing"
    /\ fs' = [fs EXCEPT !.logs = AppendTo(fs.logs, LogLine(now, output_path(cli)))]
    /\ pc' = "Ending"
    /\ UNCHANGED <<cli, db, now, outcome, vec_col_name, vec_col_type, total_rows,
                   pos, cursor, wtr, error, queries, runs>>

\* 312-325: the Err arm of the probe
Failed ==
    /\ pc = "Failed"
    /\ fs' = [fs EXCEPT !.failed = AppendTo(FileCreate(fs.failed), err_msg(cli, error[1])),
                        !.logs = AppendTo(fs.logs, LogLine(now, err_msg(cli, error[1])))]
    /\ pc' = "Ending"
    /\ UNCHANGED <<cli, db, now, outcome, vec_col_name, vec_col_type, total_rows,
                   pos, cursor, wtr, error, queries, runs>>

\* 328-334: the end entry, Ok(())
Done ==
    /\ pc = "Ending"
    /\ fs' = [fs EXCEPT !.logs = AppendTo(fs.logs, LogLine(now, S_done))]
    /\ pc' = "Exited"
    /\ outcome' = "ok"
    /\ UNCHANGED <<cli, db, now, vec_col_name, vec_col_type, total_rows,
                   pos, cursor, wtr, error, queries, runs>>

Next ==
    \/ Connect
    \/ OpenLogs
    \/ ProbeHeaders
    \/ EstimateCount
    \/ PrepareOutput
    \/ StreamRow
    \/ StreamError
    \/ StreamEnd
    \/ Finalize
    \/ Failed
    \/ Done

Spec == Init /\ [][Next]_vars

(***************************************************************************)
(* Runs repeated against the same output root: the same command line is    *)
(* started again once the process has ended; the files stay.               *)
(***************************************************************************)
NextRun ==
    /\ pc = "Exited"
    /\ runs < MaxRuns
    /\ runs' = runs + 1
    /\ now' = now + 1
    /\ pc' = "Connecting"
    /\ outcome' = "running"
    /\ vec_col_name' = <<>>
    /\ vec_col_type' = <<>>
    /\ total_rows' = 0
    /\ pos' = 0
    /\ cursor' = 0
    /\ wtr' = <<>>
    /\ error' = <<>>
    /\ queries' = <<>>
    /\ UNCHANGED <<cli, db, fs>>

InitRuns ==
    /\ Init
    /\ cli.index = <<S_id>>
    /\ cli.delim = <<"|">>
    /\ cli.repcol = S_name
    /\ db.cols = UsersText.cols

NextRuns == Next \/ NextRun

SpecRuns == InitRuns /\ [][NextRuns]_vars

(***************************************************************************)
(* The header probe over many query texts: every text built from at most   *)
(* MaxPieces pieces, and the query of Scenario A.  The database either     *)
(* answers the probe with a row or rejects it.                             *)
(***************************************************************************)
Pieces == {<<"x">>, <<"L","i","M","i","t">>, <<" ">>, <<"1">>, <<",">>, <<"\n">>}

ProbedSqls == {Concat(ps) : ps \in SeqsUpTo(Pieces, MaxPieces)} \cup {SqlScenarioA}

InitProbe ==
    /\ cli \in [table : {S_users}, index : {<< <<>> >>}, delim : {<<"|">>},
                sql : ProbedSqls, repcol : {<<>>}, output : {S_output}]
    /\ db = [sql |-> cli.sql, cols |-> UsersVarchar.cols,
              rows |-> << <<IntVal(7), TextVal(V_A)>> >>, skipped |-> 0]
    /\ now = 1
    /\ pc = "Connecting"
    /\ outcome = "running"
    /\ fs = [root |-> FALSE, logs |-> NoFile, failed |-> NoFile,
             folder |-> FALSE, csv |-> NoFile]
    /\ NoProcessState
    /\ runs = 1

NextProbe == Connect \/ OpenLogs \/ ProbeHeaders

SpecProbe == InitProbe /\ [][NextProbe]_vars

(***************************************************************************)
(* Reading the output back: a csv reader's view of one written record      *)
(* (fields split at unquoted delimiters, doubled quotes undone).           *)
(***************************************************************************)
RECURSIVE ParseFrom(_, _, _, _, _)
ParseFrom(s, i, d, cur, inq) ==
    IF i > Len(s) THEN <<cur>>
    ELSE IF inq THEN
        (IF s[i] = "\"" THEN
            (IF i + 1 <= Len(s) /\ s[i + 1] = "\""
             THEN ParseFrom(s, i + 2, d, Append(cur, "\""), TRUE)
             ELSE ParseFrom(s, i + 1, d, cur, FALSE))
         ELSE ParseFrom(s, i + 1, d, Append(cur, s[i]), TRUE))
    ELSE IF s[i] = "\"" /\ cur = <<>> THEN ParseFrom(s, i + 1, d, cur, TRUE)
    ELSE IF s[i] = d THEN <<cur>> \o ParseFrom(s, i + 1, d, <<>>, FALSE)
    ELSE IF s[i] = "\n" THEN <<cur>>
    ELSE ParseFrom(s, i + 1, d, Append(cur, s[i]), FALSE)

ParseRecord(bytes, d) == ParseFrom(bytes, 1, d, <<>>, FALSE)

IsPrefix(a, b) == Len(a) <= Len(b) /\ SubSeq(b, 1, Len(a)) = a

Last(s) == s[Len(s)]

Contains(s, c) == \E k \in DOMAIN s : s[k] = c

(***************************************************************************)
(* States the claims speak of.                                             *)
(***************************************************************************)
\* the data rows written so far are wtr[2..]; row i came from db.rows[i-1]
DataRows == 2..Len(wtr)

\* run() has ended on the Err arm of the probe
ProbeFailedEnd == pc = "Exited" /\ error # <<>>

\* run() has ended because the count/max query failed
EstimateFailedEnd == pc = "Exited" /\ Len(queries) = 2 /\ wtr = <<>>

\* run() has ended inside the streaming loop
StreamAbortedEnd == pc = "Exited" /\ outcome \in {"err", "panic"} /\ wtr # <<>>

EstimateQueries == SelectSeq(queries, LAMBDA q : q.q \in {"count", "max"})

(***************************************************************************)
(* C1.  When the sanitize target names a result column, no written value   *)
(* of that column holds the output delimiter, whatever the column's type   *)
(* and whatever the delimiter.  (The code strips only in the default arm,  *)
(* and only "|".)                                                          *)
(***************************************************************************)
C1_TargetColumnHasNoDelimiter ==
    \A i \in DataRows : \A k \in DOMAIN vec_col_name :
        vec_col_name[k] = cli.repcol => ~Contains(wtr[i][k], delim(cli))

(***************************************************************************)
(* C2.  Every written value of a column whose name differs from the        *)
(* sanitize target is the type codec's output, and when no column has the  *)
(* target's name every written record is the one written without           *)
(* sanitizing.                                                             *)
(***************************************************************************)
Unsanitized(i) ==
    [k \in DOMAIN vec_col_name |-> TypeCodec(vec_col_type[k], db.rows[i - 1][k]).v]

C2_SanitizeTouchesOnlyTarget ==
    \A i \in DataRows :
        /\ \A k \in DOMAIN vec_col_name :
              vec_col_name[k] # cli.repcol => wtr[i][k] = Unsanitized(i)[k]
        /\ (\A k \in DOMAIN vec_col_name : vec_col_name[k] # cli.repcol)
              => /\ wtr[i] = Unsanitized(i)
                 /\ fs.csv.data[i] = WriteRecord(Unsanitized(i), delim(cli))

\* a row whose target column was stripped and whose other column kept its "|"
C2_Witness ==
    /\ cli.repcol = S_name
    /\ Len(wtr) >= 2
    /\ wtr[2] = <<<<"A", "B">>, V_pipe>>

(***************************************************************************)
(* C3.  A failed count/max query ends the run like a failed probe: an      *)
(* entry in failed.log, the run log's end entry, and Ok returned.          *)
(***************************************************************************)
C3_EstimateFailureIsLogged ==
    EstimateFailedEnd =>
        /\ outcome = "ok"
        /\ fs.failed.data # <<>>
        /\ Last(fs.logs.data) = LogLine(now, S_done)

(***************************************************************************)
(* C4.  A cursor error or an undecodable value during streaming is         *)
(* recorded in failed.log and in the run log, and the rows written before  *)
(* it stay in the output file.                                             *)
(***************************************************************************)
C4_StreamFailureIsLogged ==
    StreamAbortedEnd =>
        /\ fs.failed.data # <<>>
        /\ Len(fs.logs.data) > 2
        /\ Len(fs.csv.data) = Len(wtr)

(***************************************************************************)
(* C5.  As claimed: after a failed probe failed.log holds the one line     *)
(* "<table>: <cause>", the run log mirrors it, and run returns Ok after    *)
(* the end entry.                                                          *)
(***************************************************************************)
C5_FailureLineAsClaimed ==
    ProbeFailedEnd =>
        /\ Bytes(fs.failed) = Concat(<<cli.table, S_colon, error[1], S_nl>>)
        /\ outcome = "ok"
        /\ Last(fs.logs.data) = LogLine(now, S_done)

(***************************************************************************)
(* C5, amended.  After a failed probe the run has written exactly one      *)
(* entry to failed.log, "Error with <table>: <cause>" with no line         *)
(* terminator; the run log holds the start entry, the same message with    *)
(* its timestamp, and the end entry; run returns Ok.                       *)
(***************************************************************************)
C5_FailureEntry ==
    ProbeFailedEnd =>
        /\ Bytes(fs.failed) = S_errwith \o cli.table \o <<":", " ">> \o error[1]
        /\ Len(fs.failed.data) = 1
        /\ fs.logs.data =
              << LogLine(now, check_msg(cli)),
                 timestamp(now) \o S_arrow \o Bytes(fs.failed) \o S_nl,
                 LogLine(now, S_done) >>
        /\ outcome = "ok"

C5_Witness == ProbeFailedEnd /\ error = <<E_notable>> /\ cli.table = S_users

(***************************************************************************)
(* C6.  After a failed probe no count/max query is sent, no row is         *)
(* fetched, and neither the table's folder nor its file is created.        *)
(***************************************************************************)
C6_ProbeFailureStopsExport ==
    error # <<>> =>
        /\ \A j \in DOMAIN queries : queries[j].q = "probe"
        /\ cursor = 0
        /\ wtr = <<>>
        /\ ~fs.folder
        /\ ~fs.csv.exists
        /\ pc \in {"Failed", "Ending", "Exited"}

C6_Witness == ProbeFailedEnd /\ outcome = "ok" /\ fs.failed.exists

(***************************************************************************)
(* C7.  No step of any run removes or changes bytes already in logs.log    *)
(* or failed.log: each file's earlier content is a prefix of its later     *)
(* content.                                                                *)
(***************************************************************************)
C7_LogsAppendOnly ==
    [][/\ IsPrefix(Bytes(fs.logs), Bytes(fs.logs)')
       /\ IsPrefix(Bytes(fs.failed), Bytes(fs.failed)')]_vars

(***************************************************************************)
(* C8.  An export that has estimated its total sent exactly one of the two *)
(* queries: MAX when a non-empty index is configured and is one of the     *)
(* probed column names, COUNT in every other case.                         *)
(***************************************************************************)
IndexConfigured == cli.index # <<>> /\ cli.index[1] # <<>>

C8_MaxIffIndexIsColumn ==
    /\ Len(EstimateQueries) <= 1
    /\ (vec_col_name # <<>> /\ pc # "EstimatingCount") =>
          /\ Len(EstimateQueries) = 1
          /\ EstimateQueries[1].q = "max"
                <=> (IndexConfigured /\ cli.index[1] \in Range(vec_col_name))

(***************************************************************************)
(* C9.  The output file starts with the header record, written once; every *)
(* later record is a data row that reads back with as many fields as the   *)
(* header, field k being the encoding of the column named by the header's  *)
(* field k; the probed columns stay those of the result set.               *)
(***************************************************************************)
C9_HeaderThenAlignedRows ==
    wtr # <<>> =>
        /\ fs.csv.exists
        /\ Len(fs.csv.data) = Len(wtr)
        /\ wtr[1] = [k \in DOMAIN db.cols |-> db.cols[k].name]
        /\ vec_col_name = wtr[1]
        /\ ParseRecord(fs.csv.data[1], delim(cli)) = wtr[1]
        /\ \A i \in DataRows :
              /\ Len(ParseRecord(fs.csv.data[i], delim(cli))) = Len(wtr[1])
              /\ \A k \in DOMAIN wtr[1] :
                    ParseRecord(fs.csv.data[i], delim(cli))[k]
                      = value(db.cols[k].type, wtr[1][k], db.rows[i - 1][k], cli.repcol).v

\* a finished export of two rows, one of them holding the delimiter
C9_Witness ==
    /\ pc = "Exited"
    /\ outcome = "ok"
    /\ Len(wtr) = 3
    /\ \E k \in DOMAIN wtr[2] : Contains(wtr[2][k], delim(cli))

(***************************************************************************)
(* C10.  As claimed: the probe query is the query text cut at the first    *)
(* occurrence of the keyword limit (in any case), followed by " LIMIT 10". *)
(***************************************************************************)
LimitWordAt(s, i) ==
    /\ i + 4 <= Len(s)
    /\ s[i] \in {"l", "L"}
    /\ s[i + 1] \in {"i", "I"}
    /\ s[i + 2] \in {"m", "M"}
    /\ s[i + 3] \in {"i", "I"}
    /\ s[i + 4] \in {"t", "T"}

\* s up to, not including, the first occurrence of the word; all of s when
\* it does not occur
CutAtFirstLimitWord(s) ==
    IF \E i \in DOMAIN s : LimitWordAt(s, i)
    THEN SubSeq(s, 1, (CHOOSE i \in DOMAIN s :
                          LimitWordAt(s, i) /\ \A j \in 1..(i - 1) : ~LimitWordAt(s, j)) - 1)
    ELSE s

C10_ProbeCutsAtLimitWord ==
    queries # <<>> => queries[1].text = CutAtFirstLimitWord(cli.sql) \o S_limit10

(***************************************************************************)
(* C10, amended.  For a query text without line breaks the probe query is  *)
(* the text cut at its first LIMIT clause, followed by " LIMIT 10"; a      *)
(* LIMIT clause is the word limit (in any case, not preceded by a word     *)
(* character) followed by whitespace and a number that no word character   *)
(* follows.  A text without such a clause is probed whole, and the only    *)
(* LIMIT clause of the probe query is the appended one.  Scenario A's      *)
(* query is probed as "SELECT id, name FROM users  LIMIT 10".              *)
(***************************************************************************)
LimitClauseAt(s, i) ==
    /\ LimitWordAt(s, i)
    /\ (i = 1 \/ ~IsWord(s[i - 1]))
    /\ \E b \in (i + 6)..Len(s) : \E c \in (b + 1)..(Len(s) + 1) :
          /\ \A p \in (i + 5)..(b - 1) : IsSpace(s[p])
          /\ \A p \in b..(c - 1) : IsDigit(s[p])
          /\ (c > Len(s) \/ ~IsWord(s[c]))

\* s up to, not including, its first LIMIT clause; all of s when it has none
CutAtFirstLimitClause(s) ==
    IF \E i \in DOMAIN s : LimitClauseAt(s, i)
    THEN SubSeq(s, 1, (CHOOSE i \in DOMAIN s :
                          LimitClauseAt(s, i) /\ \A j \in 1..(i - 1) : ~LimitClauseAt(s, j)) - 1)
    ELSE s

ProbeOfScenarioA == <<"S","E","L","E","C","T"," ","i","d",","," ","n","a","m","e"," ","F","R","O","M"," ","u","s","e","r","s"," "," ","L","I","M","I","T"," ","1","0">>

C10_ProbeCutsAtLimitClause ==
    queries # <<>> =>
        /\ ~Contains(cli.sql, "\n") =>
              /\ queries[1].text = CutAtFirstLimitClause(cli.sql) \o S_limit10
              /\ \A i \in DOMAIN queries[1].text :
                    LimitClauseAt(queries[1].text, i) => i = Len(queries[1].text) - 7
        /\ cli.sql = SqlScenarioA => queries[1].text = ProbeOfScenarioA

\* a probed text with a LIMIT clause after other text: "x LiMit 1"
C10_Witness ==
    /\ cli.sql = <<"x", " ", "L", "i", "M", "i", "t", " ", "1">>
    /\ queries # <<>>
    /\ queries[1].text = <<"x", " ", " ", "L", "I", "M", "I", "T", " ", "1", "0">>

(***************************************************************************)
(* Reading the output back by splitting a line at every delimiter.         *)
(***************************************************************************)
\* a written record without its terminator
Line(bytes) == SubSeq(bytes, 1, Len(bytes) - 1)

RECURSIVE SplitFrom(_, _, _, _)
SplitFrom(s, i, d, cur) ==
    IF i > Len(s) THEN <<cur>>
    ELSE IF s[i] = d THEN <<cur>> \o SplitFrom(s, i + 1, d, <<>>)
    ELSE SplitFrom(s, i + 1, d, Append(cur, s[i]))

SplitOn(s, d) == SplitFrom(s, 1, d, <<>>)

\* column k is CHAR, VARCHAR or of a type the match does not name
TextTyped(k) == vec_col_type[k] \in CharTags \/ vec_col_type[k] \notin ExplicitTags

\* the string the driver reported for column k of written row i
Reported(i, k) == db.rows[i - 1][k].v

Quoted(f) == \E j \in DOMAIN f : f[j] \in {delim(cli), "\"", "\r", "\n"}

C12_ConnectFailureLeavesNothing ==
    [][(pc = "Connecting" /\ pc' # "OpeningLogs") =>
          /\ fs' = fs
          /\ queries' = <<>>
          /\ vec_col_name' = <<>>
          /\ pc' = "Exited"
          /\ outcome' = "err"]_vars

\* a second run that failed to connect, over the files a first run left
C12_Witness ==
    /\ runs = 2
    /\ pc = "Exited"
    /\ outcome = "err"
    /\ vec_col_name = <<>>
    /\ error = <<>>
    /\ queries = <<>>
    /\ fs.logs.exists
    /\ fs.csv.exists

(***************************************************************************)
(* C13.  Once the header is written, the data records of the output file   *)
(* are the encodings of the rows the cursor has delivered, in the order of *)
(* delivery, one record per row, and the progress counter equals the       *)
(* number of data records written.  While the loop runs every delivered    *)
(* row has been written; the counter moves only by one, together with one  *)
(* written record.  (A row that cannot be decoded ends the process before  *)
(* it is written: that is the abort of C4.)                                *)
(***************************************************************************)
C13_RowsInCursorOrder ==
    wtr # <<>> =>
        /\ pos = Len(wtr) - 1
        /\ Len(fs.csv.data) = Len(wtr)
        /\ pos <= cursor
        /\ \A i \in DataRows :
              /\ wtr[i] = EncodedRow(vec_col_name, vec_col_type, db.rows[i - 1], cli.repcol)
              /\ fs.csv.data[i] = WriteRecord(wtr[i], delim(cli))
        /\ (outcome # "panic") => cursor = pos
        /\ (outcome = "panic") =>
              /\ cursor = pos + 1
              /\ ~RowDecodes(vec_col_name, vec_col_type, db.rows[cursor], cli.repcol)
        /\ (pc \in {"Finalizing", "Ending"} \/ outcome = "ok") => pos = Len(db.rows)

\* two different rows delivered and written, the stream at its end
C13_Witness ==
    /\ pc = "Finalizing"
    /\ Len(db.rows) = 2
    /\ db.rows[1] # db.rows[2]
    /\ pos = 2
    /\ Len(fs.csv.data) = 3
    /\ fs.csv.data[2] # fs.csv.data[3]

\* the number of queries of the kinds in K sent so far
Sent(K) == Cardinality({i \in DOMAIN queries : queries[i].q \in K})

(***************************************************************************)
(* C14.  The probe is the first query and is sent once; the estimate is    *)
(* the second and is sent once; the main query is sent to the cursor only  *)
(* after both, so no row is fetched before them.  total_rows is assigned   *)
(* by the estimate alone.  The process panics in the loop only on a row    *)
(* that does not decode, never because pos passed total_rows, and a stream *)
(* that ends goes on to the output-path entry whatever the two counts are. *)
(***************************************************************************)
C14_EstimateOnceBeforeStreaming ==
    /\ [](/\ Sent({"probe"}) <= 1
          /\ Sent({"count", "max"}) <= 1
          /\ Sent({"stream"}) <= 1
          /\ \A i \in DOMAIN queries :
                /\ queries[i].q = "probe" => i = 1
                /\ queries[i].q \in {"count", "max"} => i = 2
                /\ queries[i].q = "stream" => i = 3
          /\ (cursor > 0 \/ pc = "Streaming") =>
                Sent({"probe"}) = 1 /\ Sent({"count", "max"}) = 1
          /\ cursor > 0 => Sent({"stream"}) = 1
          /\ outcome = "panic" =>
                /\ cursor > 0
                /\ ~RowDecodes(vec_col_name, vec_col_type, db.rows[cursor], cli.repcol)
          /\ (pc \in {"Finalizing", "Ending"} /\ error = <<>>) => pos = Len(db.rows))
    /\ [][/\ total_rows' # total_rows => (pc = "EstimatingCount" /\ cursor = 0)
          /\ (pc = "Streaming" /\ cursor = Len(db.rows) /\ pc' # "Finalizing")
                => (pc' = "Exited" /\ outcome' = "err" /\ pos' = pos)
          /\ (pc = "Finalizing") => (pc' = "Ending" /\ outcome' = "running")
          /\ (pc = "Ending") => (pc' = "Exited" /\ outcome' = "ok")]_vars

\* a run that wrote more rows than the estimate and returned Ok
C14_Witness ==
    /\ pc = "Exited"
    /\ outcome = "ok"
    /\ error = <<>>
    /\ pos = 2
    /\ total_rows = 0
    /\ Len(queries) = 3

\* run() has ended after it opened the run log
PastConnectingEnd == pc = "Exited" /\ queries # <<>>

(***************************************************************************)
(* C15.  A run that got past connecting leaves a run log whose first entry *)
(* is the start entry and whose last entry is Done, on the success and on  *)
(* the failure path; on success the entries are start, table, output path, *)
(* Done, the output path coming after every row was written.               *)
(***************************************************************************)
C15_LogCheckpointsInOrder ==
    /\ PastConnectingEnd =>
          /\ fs.logs.data[1] = LogLine(now, check_msg(cli))
          /\ Last(fs.logs.data) = LogLine(now, S_done)
          /\ wtr # <<>> =>
                fs.logs.data = << LogLine(now, check_msg(cli)),
                                  LogLine(now, cli.table),
                                  LogLine(now, output_path(cli)),
                                  LogLine(now, S_done) >>
    /\ (\E i \in DOMAIN fs.logs.data : fs.logs.data[i] = LogLine(now, output_path(cli)))
          => (Len(wtr) = Len(db.rows) + 1 /\ Len(fs.csv.data) = Len(wtr))

\* run() has returned Ok: no query was rejected after the probe
ReturnedOk == pc = "Exited" /\ outcome = "ok"

(***************************************************************************)
(* C16.  As claimed: when the query returns zero rows no file and no       *)
(* folder is made for the table, and a run that returns has taken the      *)
(* failure path and left an entry in failed.log.                           *)
(***************************************************************************)
C16_ZeroRowsTakeFailurePath ==
    db.rows = <<>> =>
        /\ ~fs.csv.exists
        /\ ~fs.folder
        /\ ReturnedOk => (error # <<>> /\ fs.failed.data # <<>>)

(***************************************************************************)
(* C16, amended.  What decides is the probe's query, the query without its *)
(* LIMIT clause.  When that returns zero rows the export takes the failure *)
(* path: no estimate is sent, nothing is streamed, no folder and no file   *)
(* is made for the table, and the run ends with the failure entry in       *)
(* failed.log, mirrored in the run log before Done.  When only the window  *)
(* of the query's own LIMIT clause is empty the probe finds a row, and a   *)
(* run that returns Ok has written a file holding the header alone.        *)
(***************************************************************************)
C16_EmptyProbeTakesFailurePath ==
    /\ ProbeRows(db) = 0 =>
          /\ ~fs.csv.exists
          /\ ~fs.folder
          /\ vec_col_name = <<>>
          /\ Len(queries) <= 1
          /\ cursor = 0
          /\ (pc = "Exited" /\ queries # <<>>) =>
                /\ outcome = "ok"
                /\ error \in {<<E_rownotfound>>} \cup {<<e>> : e \in DriverErrors}
                /\ fs.failed.data = <<err_msg(cli, error[1])>>
                /\ fs.logs.data = << LogLine(now, check_msg(cli)),
                                     LogLine(now, err_msg(cli, error[1])),
                                     LogLine(now, S_done) >>
    /\ (ProbeRows(db) > 0 /\ db.rows = <<>> /\ ReturnedOk /\ error = <<>>) =>
          /\ fs.folder
          /\ fs.csv.data = <<WriteRecord(vec_col_name, delim(cli))>>
          /\ ~fs.failed.exists

\* the probe found no row and the run ended on the failure path
C16_Witness ==
    /\ ProbeRows(db) = 0
    /\ ReturnedOk
    /\ error = <<E_rownotfound>>
    /\ fs.failed.exists
    /\ ~fs.csv.exists

====
